---- MODULE Spec2Model ----
(***************************************************************************)
(* Model of gengo's git handler (handlers/git.rs) and of the Analysis view *)
(* (analysis/mod.rs): the work stack of traversal units, the parallel      *)
(* classification pass over one unit's entries, the per-blob facet         *)
(* resolution, and the summary reduction.                                  *)
(*                                                                         *)
(* Byte strings (paths, attribute values, language names) are sequences of *)
(* one-character strings.  Option<T> is a sequence of length 0 or 1.       *)
(***************************************************************************)
EXTENDS Integers, Sequences, FiniteSets, TLC

VARIABLES
    inputs,              \* repository content: what each blob/path yields when read
    sm_status,           \* repository content: state of each sub-repository
    nthreads,            \* number of worker threads of a parallel pass
    pc,                  \* position of the coordinating thread inside analyze
    stack,               \* analyze: the work stack of (root, repo, tree_id)
    all_results,         \* analyze: the accumulated Results
    results,             \* analyze: Option<Results> of the unit being processed
    submodules,          \* analyze: Option<set of opened sub-repository paths>
    submodule_id_by_path,\* analyze: side list returned by Results::from_index
    index,               \* in_parallel_with_slice: next input index to hand out
    should_interrupt,    \* in_parallel_with_slice: the shared interruption flag
    workers,             \* in_parallel_with_slice: per thread position and result
    ret,                 \* Option<return value of analyze>
    first_error          \* history: Option<the error a closure of the run returned first>

vars == <<inputs, sm_status, nthreads, pc, stack, all_results, results,
          submodules, submodule_id_by_path, index, should_interrupt, workers,
          ret, first_error>>

world == <<inputs, sm_status, nthreads>>

----------------------------------------------------------------------------
(* Bounds of the model *)

MaxThreads == 2

(* Largest blob size drawn for a file *)
MaxSize == 2

----------------------------------------------------------------------------
(* Option *)

None == <<>>
Some(x) == <<x>>
IsSome(o) == Len(o) = 1
Unwrap(o) == o[1]

----------------------------------------------------------------------------
(* Byte strings *)

Slash == "/"

(* A byte that is not part of any valid UTF-8 sequence *)
BadByte == "\\xff"

IsUtf8(s) == \A i \in 1..Len(s) : s[i] # BadByte

(* gix::path::try_from_bstr: the conversion fails on bytes that are not    *)
(* valid UTF-8 (on platforms whose paths are not raw bytes).               *)
TryFromBstr(p) == IF IsUtf8(p) THEN Some(p) ELSE None

(* str::replace('-', " ") *)
ReplaceHyphen(s) == [i \in 1..Len(s) |-> IF s[i] = "-" THEN " " ELSE s[i]]

----------------------------------------------------------------------------
(* The language catalog (self.analyzers) *)

LangObjC == [name |-> <<"O", " ", "C">>, category |-> "Programming"]
LangRust == [name |-> <<"R">>, category |-> "Programming"]
LangHtml == [name |-> <<"H">>, category |-> "Markup"]
LangJson == [name |-> <<"J">>, category |-> "Data"]
LangSql  == [name |-> <<"S">>, category |-> "Query"]
LangText == [name |-> <<"T">>, category |-> "Prose"]

Catalog == {LangObjC, LangRust, LangHtml, LangJson, LangSql, LangText}

(* self.analyzers.get(&name) *)
CatalogGet(name) ==
    IF \E l \in Catalog : l.name = name
    THEN Some(CHOOSE l \in Catalog : l.name = name)
    ELSE None

----------------------------------------------------------------------------
(* The repository the handler reads (gix).  The object graph is fixed; what *)
(* the blobs and the attribute files hold, and which sub-repositories can   *)
(* be opened, is drawn in Init.                                             *)

TopRepo == "T"
TopTree == "tT"

IndexEntry(p, i, m) == [path |-> p, id |-> i, mode |-> m]

(* repo.index_from_tree(tree_id): the entries of a tree, sorted by path *)
IndexFromTree(tree_id) ==
    CASE tree_id = "tT" ->
           << IndexEntry(<<"a">>, "oa", "FILE"),
              IndexEntry(<<"b">>, "ob", "FILE_EXECUTABLE"),
              IndexEntry(<<"l">>, "ol", "SYMLINK"),
              IndexEntry(<<"u">>, "cC", "COMMIT"),
              IndexEntry(<<"v">>, "cA", "COMMIT") >>
      [] tree_id = "tA" ->
           << IndexEntry(<<"k", "/", "c">>, "oc", "FILE"),
              IndexEntry(<<"w">>, "cB", "COMMIT") >>
      [] tree_id = "tB" ->
           << IndexEntry(<<"d">>, "od", "FILE") >>
      [] tree_id = "tC" ->
           << IndexEntry(<<"s">>, "os", "SYMLINK"),
              IndexEntry(<<BadByte>>, "oe", "FILE") >>

(* The sub-repository that .gitmodules of repo declares at path *)
SubRepoAt(repo, path) ==
    CASE repo = "T" /\ path = <<"v">> -> "A"
      [] repo = "T" /\ path = <<"u">> -> "C"
      [] repo = "A" /\ path = <<"w">> -> "B"

SubRepos == {"A", "B", "C"}

(* sm_repo.find_object(sm_commit)?.peel_to_tree()?.id *)
TreeOfCommit(sm_commit) ==
    CASE sm_commit = "cA" -> "tA"
      [] sm_commit = "cB" -> "tB"
      [] sm_commit = "cC" -> "tC"

BlobIds == {"oa", "ob", "oc", "od"}

(* gix::attrs::StateRef of one attribute assignment *)
Unspecified == [state |-> "Unspecified", value |-> <<>>]
Set         == [state |-> "Set", value |-> <<>>]
Unset       == [state |-> "Unset", value |-> <<>>]
Value(v)    == [state |-> "Value", value |-> v]

(* StateRef::is_set *)
IsSet(st) == st.state = "Set"

----------------------------------------------------------------------------
(* Handler::analyze_blob *)

MapSeq(s, F(_)) == [i \in 1..Len(s) |-> F(s[i])]

(* attrs[i]: Some(info) unless the assignment is Unspecified *)
AttrSlot(st) == IF st.state # "Unspecified" THEN Some(st) ELSE None

(* The name a gengo-language assignment gives, if it is a UTF-8 value *)
LangOverrideName(slot) ==
    IF IsSome(slot) /\ Unwrap(slot).state = "Value" /\ IsUtf8(Unwrap(slot).value)
    THEN Some(ReplaceHyphen(Unwrap(slot).value))
    ELSE None

LangOverride(slot) ==
    IF IsSome(LangOverrideName(slot))
    THEN CatalogGet(Unwrap(LangOverrideName(slot)))
    ELSE None

(* ResolveLanguage that asks the picker first and the override second *)
ResolveLanguage_PickerFirst(slot, pick) ==
    IF IsSome(pick) THEN pick ELSE LangOverride(slot)

(* lang_override.or_else(|| self.analyzers.pick(..)) *)
ResolveLanguage(slot, pick) ==
    IF IsSome(LangOverride(slot)) THEN LangOverride(slot) ELSE pick

(* ResolveFacet with the override only able to switch a facet on *)
ResolveFacet_HeuristicWins(slot, otherwise) ==
    otherwise \/ (IsSome(slot) /\ IsSet(Unwrap(slot)))

(* attrs[i].map(|info| info.assignment.state.is_set()).unwrap_or_else(..) *)
ResolveFacet(slot, otherwise) ==
    IF IsSome(slot) THEN IsSet(Unwrap(slot)) ELSE otherwise

(* VendoredDefault without the is_submodule term *)
VendoredDefault_HeuristicOnly(is_submodule, is_vendored) == is_vendored

(* The default of vendored: is_submodule || self.is_vendored(..) *)
VendoredDefault(is_submodule, is_vendored) == is_submodule \/ is_vendored

(* DetectableDefault without the Data | Prose arm *)
DetectableDefault_IgnoresCategory(category, generated, documentation, vendored) ==
    ~(generated \/ documentation \/ vendored)

(* DetectableDefault with vendored left out of the disjunction *)
DetectableDefault_IgnoresVendored(category, generated, documentation, vendored) ==
    IF category \in {"Data", "Prose"}
    THEN FALSE
    ELSE ~(generated \/ documentation)

(* The default of detectable, by language category *)
DetectableDefault(category, generated, documentation, vendored) ==
    IF category \in {"Data", "Prose"}
    THEN FALSE
    ELSE ~(generated \/ documentation \/ vendored)

(* The Entry analyze_blob builds once the language is known *)
MakeEntry(language, inp, slots, is_submodule) ==
    LET generated     == ResolveFacet(slots[2], inp.is_generated)
        documentation == ResolveFacet(slots[3], inp.is_documentation)
        vendored      == ResolveFacet(slots[4],
                             VendoredDefault(is_submodule, inp.is_vendored))
        detectable    == ResolveFacet(slots[5],
                             DetectableDefault(language.category, generated,
                                               documentation, vendored))
    IN  [language      |-> language,
         size          |-> inp.size,
         detectable    |-> detectable,
         generated     |-> generated,
         documentation |-> documentation,
         vendored      |-> vendored]

(* analyze_blob on one BlobEntry: the error it returns, if any, and the    *)
(* value of result.result afterwards.                                      *)
AnalyzeBlob(entry, inp, is_submodule) ==
    LET slots    == MapSeq(inp.attrs, AttrSlot)
        language == ResolveLanguage(slots[1], inp.pick)
    IN  IF inp.io = "blob_err"
        THEN [err |-> Some([kind |-> "find_object", id |-> entry.index_entry.id]),
              result |-> entry.result]
        ELSE IF inp.io = "attrs_err"
        THEN [err |-> Some([kind |-> "at_path", id |-> entry.index_entry.id]),
              result |-> entry.result]
        ELSE IF ~IsSome(language)
        THEN [err |-> None, result |-> entry.result]
        ELSE [err |-> None,
              result |-> Some(MakeEntry(Unwrap(language), inp, slots, is_submodule))]

----------------------------------------------------------------------------
(* Results::from_index *)

(* IsRegular that also keeps symbolic links *)
IsRegular_IncludesSymlink(e) == e.mode \in {"FILE", "FILE_EXECUTABLE", "SYMLINK"}

IsRegular(e) == e.mode \in {"FILE", "FILE_EXECUTABLE"}
IsCommit(e) == e.mode = "COMMIT"

BlobEntry(e) == [index_entry |-> e, result |-> None]
SubmoduleId(e) == [path |-> e.path, id |-> e.id]

FromIndex(root, idx) ==
    [results    |-> [root |-> root,
                     entries |-> MapSeq(SelectSeq(idx, IsRegular), BlobEntry)],
     submodules |-> MapSeq(SelectSeq(idx, IsCommit), SubmoduleId)]

----------------------------------------------------------------------------
(* Handler::analyze: sub-repository discovery *)

(* The paths .gitmodules of a repository declares; repositories without a  *)
(* .gitmodules file have no submodule list at all.                         *)
HasModules(repo) == repo \in {"T", "A"}
DeclaredPaths(repo) ==
    CASE repo = "T" -> {<<"u">>, <<"v">>}
      [] repo = "A" -> {<<"w">>}
      [] OTHER -> {}

(* OpenSubmodules that looks for sub-repositories in the top repository only *)
OpenSubmodules_TopOnly(repo, status) ==
    IF repo = TopRepo
    THEN Some({ [path |-> p, repo |-> SubRepoAt(repo, p)] :
                  p \in { q \in DeclaredPaths(repo) :
                            status[SubRepoAt(repo, q)] # "noopen" } })
    ELSE None

(* repo.submodules()?.map(..): the sub-repositories that open, by path *)
OpenSubmodules(repo, status) ==
    IF HasModules(repo)
    THEN Some({ [path |-> p, repo |-> SubRepoAt(repo, p)] :
                  p \in { q \in DeclaredPaths(repo) :
                            status[SubRepoAt(repo, q)] # "noopen" } })
    ELSE None

(* abs_root: the parent's root and the sub-repository's path, joined by / *)
AbsRoot(root, path) ==
    IF root # <<>> THEN root \o <<Slash>> \o path ELSE path

(* ChildUnit that pushes a unit although the commit does not peel to a tree *)
ChildUnit_IgnoresPeelFailure(root, sm, by_path, status) ==
    IF \E o \in by_path : o.path = sm.path
    THEN Some([root |-> AbsRoot(root, sm.path),
               repo |-> (CHOOSE o \in by_path : o.path = sm.path).repo,
               tree_id |-> TreeOfCommit(sm.id)])
    ELSE None

(* The unit pushed for one (path, sm_commit), if its repository was opened *)
(* and the commit peels to a tree.                                         *)
ChildUnit(root, sm, by_path, status) ==
    IF \E o \in by_path : o.path = sm.path
    THEN LET sm_repo == (CHOOSE o \in by_path : o.path = sm.path).repo
         IN  IF status[sm_repo] = "notree"
             THEN None
             ELSE Some([root |-> AbsRoot(root, sm.path), repo |-> sm_repo,
                        tree_id |-> TreeOfCommit(sm.id)])
    ELSE None

RECURSIVE ChildUnits(_, _, _, _)
ChildUnits(root, sms, by_path, status) ==
    IF sms = <<>>
    THEN <<>>
    ELSE ChildUnit(root, Head(sms), by_path, status)
           \o ChildUnits(root, Tail(sms), by_path, status)

----------------------------------------------------------------------------
(* What reading one blob, and the attributes at its path, can yield *)

NoAttrs == <<Unspecified, Unspecified, Unspecified, Unspecified, Unspecified>>

Input(io, size, attrs, pick, g, d, v) ==
    [io |-> io, size |-> size, attrs |-> attrs, pick |-> pick,
     is_generated |-> g, is_documentation |-> d, is_vendored |-> v]

Plain(language, size) == Input("ok", size, NoAttrs, Some(language), FALSE, FALSE, FALSE)
Generated(language, size) == Input("ok", size, NoAttrs, Some(language), TRUE, FALSE, FALSE)
NoLanguage == Input("ok", 1, NoAttrs, None, FALSE, FALSE, FALSE)
Overridden(name, pick) ==
    Input("ok", 1, <<Value(name), Unspecified, Unspecified, Unspecified, Unspecified>>,
          pick, FALSE, FALSE, FALSE)
BlobErr == Input("blob_err", 0, NoAttrs, None, FALSE, FALSE, FALSE)
AttrsErr == Input("attrs_err", 1, NoAttrs, None, FALSE, FALSE, FALSE)

(* The contents drawn for each blob in the traversal specification *)
MainInputs(id) ==
    CASE id = "oa" -> { Plain(LangRust, s) : s \in 1..MaxSize } \cup {NoLanguage, BlobErr}
      [] id = "ob" -> { Generated(LangRust, 1), Plain(LangRust, 2), Plain(LangJson, 1),
                        BlobErr, AttrsErr }
      [] id = "oc" -> { Plain(LangRust, 1), Overridden(<<"Z">>, None), BlobErr }
      [] id = "od" -> { Plain(LangHtml, 1), BlobErr }

SmStates == {"ok", "noopen", "notree"}

----------------------------------------------------------------------------
(* State *)

NoWorkers == <<>>

Unit(root, repo, tree_id) == [root |-> root, repo |-> repo, tree_id |-> tree_id]

Ok == [ok |-> TRUE, err |-> None]
Err(e) == [ok |-> FALSE, err |-> Some(e)]

(* Everything analyze owns is released when it returns *)
Idle ==
    /\ stack = <<>>
    /\ all_results = <<>>
    /\ results = None
    /\ submodules = None
    /\ submodule_id_by_path = <<>>
    /\ index = 0
    /\ should_interrupt = FALSE
    /\ workers = NoWorkers
    /\ first_error = None

InitRun ==
    /\ pc = "start"
    /\ ret = None
    /\ Idle

Init ==
    /\ inputs \in [BlobIds -> UNION { MainInputs(id) : id \in BlobIds }]
    /\ \A id \in BlobIds : inputs[id] \in MainInputs(id)
    /\ sm_status \in [SubRepos -> SmStates]
    /\ nthreads \in 1..MaxThreads
    /\ InitRun

----------------------------------------------------------------------------
(* Handler::analyze, the coordinating thread *)

Release ==
    /\ stack' = <<>>
    /\ all_results' = <<>>
    /\ results' = None
    /\ submodules' = None
    /\ submodule_id_by_path' = <<>>
    /\ index' = 0
    /\ should_interrupt' = FALSE
    /\ workers' = NoWorkers

(* return Err(e): the `?` operator *)
Fail(e) ==
    /\ pc' = "failed"
    /\ ret' = Some(Err(e))
    /\ Release
    /\ UNCHANGED first_error

(* Lines 35-37: resolve the revision to a tree and seed the stack *)
Start ==
    /\ pc = "start"
    /\ \E resolved \in BOOLEAN :
         IF resolved
         THEN /\ stack' = <<Unit(<<>>, TopRepo, TopTree)>>
              /\ pc' = "loop"
              /\ UNCHANGED <<all_results, results, submodules, submodule_id_by_path,
                             index, should_interrupt, workers, ret, first_error>>
         ELSE Fail([kind |-> "rev_parse", id |-> TopTree])
    /\ UNCHANGED world

(* The threads in_parallel_with_slice spawns *)
SpawnWorkers(n) == [w \in 1..n |-> [pc |-> "fetch", item |-> 0, res |-> None]]

(* Lines 40-53: pop a unit, list it, open its sub-repositories and start   *)
(* the parallel pass over its entries.                                     *)
Pop ==
    /\ pc = "loop"
    /\ stack # <<>>
    /\ LET unit   == stack[Len(stack)]
           listed == FromIndex(unit.root, IndexFromTree(unit.tree_id))
       IN  \E outcome \in {"ok", "index_from_tree", "submodules"} :
             IF outcome = "ok"
             THEN /\ stack' = SubSeq(stack, 1, Len(stack) - 1)
                  /\ results' = Some(listed.results)
                  /\ submodule_id_by_path' = listed.submodules
                  /\ submodules' = OpenSubmodules(unit.repo, sm_status)
                  /\ index' = 0
                  /\ should_interrupt' = FALSE
                  /\ workers' = SpawnWorkers(nthreads)
                  /\ pc' = "pass"
                  /\ UNCHANGED <<all_results, ret, first_error>>
             ELSE Fail([kind |-> outcome, id |-> unit.tree_id])
    /\ UNCHANGED world

(* is_submodule of the unit being processed *)
IsSubmodule(root) == root # <<>>

(* FirstError with the workers' errors dropped instead of propagated *)
FirstError_Swallowed(ws) == None

(* The first error in thread order, which the join loop returns *)
FirstError(ws) ==
    LET failed == { w \in DOMAIN ws : IsSome(ws[w].res) }
    IN  IF failed = {}
        THEN None
        ELSE ws[CHOOSE w \in failed : \A v \in failed : w <= v].res

(* PassFinished that waits for the first worker thread only *)
PassFinished_FirstOnly(ws) == ws[1].pc = "done"

(* in_parallel_with_slice returns once every thread it spawned has ended *)
PassFinished(ws) == \A w \in DOMAIN ws : ws[w].pc = "done"

(* Lines 53-72: the pass is over; return its error, or keep the results    *)
(* and push the sub-repositories that could be opened.                     *)
Join ==
    /\ pc = "pass"
    /\ PassFinished(workers)
    /\ IF IsSome(FirstError(workers))
       THEN Fail(Unwrap(FirstError(workers)))
       ELSE /\ all_results' = Append(all_results, Unwrap(results))
            /\ stack' = IF IsSome(submodules)
                        THEN stack \o ChildUnits(Unwrap(results).root,
                                                 submodule_id_by_path,
                                                 Unwrap(submodules), sm_status)
                        ELSE stack
            /\ results' = None
            /\ submodules' = None
            /\ submodule_id_by_path' = <<>>
            /\ index' = 0
            /\ should_interrupt' = FALSE
            /\ workers' = NoWorkers
            /\ pc' = "loop"
            /\ UNCHANGED <<ret, first_error>>
    /\ UNCHANGED world

(* Line 75: the stack is empty, Ok(()) *)
Return ==
    /\ pc = "loop"
    /\ stack = <<>>
    /\ pc' = "done"
    /\ ret' = Some(Ok)
    /\ Release
    /\ UNCHANGED <<world, first_error>>

----------------------------------------------------------------------------
(* Handler::analyze_index: one worker thread of in_parallel_with_slice *)

SetWorker(w, p, item, res) ==
    workers' = [workers EXCEPT ![w] = [pc |-> p, item |-> item, res |-> res]]

(* NextIndex that advances the shared index by two *)
NextIndex_SkipsOne(x) == x + 2

(* NextIndex that leaves the shared index where it is *)
NextIndex_Stuck(x) == x

(* index.fetch_update(.., |x| (x < input_len).then_some(x + 1)) *)
NextIndex(x) == x + 1

(* Take the next index, if any is left *)
WFetch(w) ==
    /\ pc = "pass"
    /\ workers[w].pc = "fetch"
    /\ IF index < Len(Unwrap(results).entries)
       THEN /\ index' = NextIndex(index)
            /\ SetWorker(w, "check", index + 1, None)
       ELSE /\ SetWorker(w, "done", 0, None)
            /\ UNCHANGED index
    /\ UNCHANGED <<world, pc, stack, all_results, results, submodules,
                   submodule_id_by_path, should_interrupt, ret, first_error>>

(* The flag is read once more before the item is handed to the closure *)
WCheck(w) ==
    /\ pc = "pass"
    /\ workers[w].pc = "check"
    /\ IF should_interrupt
       THEN SetWorker(w, "done", 0, None)
       ELSE SetWorker(w, "consume", workers[w].item, None)
    /\ UNCHANGED <<world, pc, stack, all_results, results, submodules,
                   submodule_id_by_path, index, should_interrupt, ret, first_error>>

(* ShouldSkip that never looks at the interruption flag *)
ShouldSkip_IgnoresFlag(entry, interrupted) ==
    ~IsSome(TryFromBstr(entry.index_entry.path))

(* Lines 91-98: the closure returns Ok(()) without touching its entry when *)
(* the flag is raised or the path cannot be converted.                     *)
ShouldSkip(entry, interrupted) ==
    interrupted \/ ~IsSome(TryFromBstr(entry.index_entry.path))

(* The closure enters: it reads the flag and converts the path; analyze_blob *)
(* then runs without looking at the flag again.                            *)
WConsume(w) ==
    /\ pc = "pass"
    /\ workers[w].pc = "consume"
    /\ IF ShouldSkip(Unwrap(results).entries[workers[w].item], should_interrupt)
       THEN SetWorker(w, "fetch", 0, None)
       ELSE SetWorker(w, "blob", workers[w].item, None)
    /\ UNCHANGED <<world, pc, stack, all_results, results, submodules,
                   submodule_id_by_path, index, should_interrupt, ret, first_error>>

(* BlobInput read through one scratch shared by the workers: it holds what *)
(* was loaded for the entry picked up last, by whichever worker.           *)
BlobInput_SharedScratch(entry) ==
    inputs[Unwrap(results).entries[index].index_entry.id]

(* What find_object and the attribute stack yield for the entry's blob and *)
(* path: each worker reads through its own handle and its own scratch.     *)
BlobInput(entry) == inputs[entry.index_entry.id]

(* Line 99: what analyze_blob does to the entry *)
Consume(entry, is_submodule) == AnalyzeBlob(entry, BlobInput(entry), is_submodule)

(* AfterConsume that writes every result into the first slot of the list *)
AfterConsume_WritesFirstSlot(res, i, out) == [res EXCEPT !.entries[1].result = out.result]

(* AfterConsume that throws the unit's partial results away on an error *)
AfterConsume_DiscardOnError(res, i, out) ==
    IF IsSome(out.err)
    THEN [res EXCEPT !.entries = [k \in 1..Len(res.entries) |->
                                    [res.entries[k] EXCEPT !.result = None]]]
    ELSE [res EXCEPT !.entries[i].result = out.result]

(* The entry list after the closure ran on entry i: only that slot is      *)
(* written (result.result = Some(entry)), every other slot is untouched.   *)
AfterConsume(res, i, out) == [res EXCEPT !.entries[i].result = out.result]

(* analyze_blob runs on the item.  A worker whose closure returns an error *)
(* raises the shared flag and ends with that error; the others stop at     *)
(* their next check of the flag.                                           *)
WAnalyzeBlob(w) ==
    /\ pc = "pass"
    /\ workers[w].pc = "blob"
    /\ LET i   == workers[w].item
           res == Unwrap(results)
           out == Consume(res.entries[i], IsSubmodule(res.root))
       IN  IF IsSome(out.err)
           THEN /\ SetWorker(w, "done", 0, out.err)
                /\ should_interrupt' = TRUE
                /\ first_error' = IF IsSome(first_error) THEN first_error ELSE out.err
                /\ results' = Some(AfterConsume(res, i, out))
           ELSE /\ SetWorker(w, "fetch", 0, None)
                /\ results' = Some(AfterConsume(res, i, out))
                /\ UNCHANGED <<should_interrupt, first_error>>
    /\ UNCHANGED <<world, pc, stack, all_results, submodules,
                   submodule_id_by_path, index, ret>>

Fetch == \E w \in DOMAIN workers : WFetch(w)
Check == \E w \in DOMAIN workers : WCheck(w)
ConsumeEntry == \E w \in DOMAIN workers : WConsume(w)
AnalyzeEntry == \E w \in DOMAIN workers : WAnalyzeBlob(w)

Next ==
    \/ Start
    \/ Pop
    \/ Fetch
    \/ Check
    \/ ConsumeEntry
    \/ AnalyzeEntry
    \/ Join
    \/ Return

(* The traversal: every interleaving of the workers over a repository with *)
(* nested sub-repositories, some of which may not open.                    *)
Spec == Init /\ [][Next]_vars

----------------------------------------------------------------------------
(* The classification of one file under every combination of attribute    *)
(* assignments, heuristic outcomes and language categories: the same file  *)
(* content is placed at the top level (blob oa), inside sub-repository A   *)
(* (blob oc) and inside B, nested in A (blob od), and analyze runs over it *)
(* with one worker.                                                        *)

AttrStates == {Unspecified, Set, Unset, Value(<<"t">>)}

(* gengo-language assignment and heuristic pick, together *)
LanguageCases ==
    { <<Unspecified, Some(l)>> : l \in Catalog \ {LangRust} }
      \cup { <<Unspecified, None>>,
             <<Value(<<"O", "-", "C">>), None>>,
             <<Value(<<"O", "-", "C">>), Some(LangJson)>>,
             <<Value(<<"J">>), Some(LangObjC)>>,
             <<Value(<<"Z">>), Some(LangHtml)>>,
             <<Value(<<"Z">>), None>>,
             <<Value(<<BadByte>>), Some(LangText)>>,
             <<Set, Some(LangSql)>>,
             <<Unset, None>> }

BlobInputs ==
    { Input("ok", 1, <<lc[1], ag, ad, av, at>>, lc[2], g, d, v) :
        lc \in LanguageCases, ag \in AttrStates, ad \in AttrStates,
        av \in AttrStates, at \in AttrStates,
        g \in BOOLEAN, d \in BOOLEAN, v \in BOOLEAN }

InitBlob ==
    /\ \E inp \in BlobInputs :
         inputs = [id \in BlobIds |-> IF id = "ob" THEN NoLanguage ELSE inp]
    /\ sm_status = [s \in SubRepos |-> IF s = "C" THEN "noopen" ELSE "ok"]
    /\ nthreads = 1
    /\ InitRun

SpecBlob == InitBlob /\ [][Next]_vars

----------------------------------------------------------------------------
(* Analysis (analysis/mod.rs): a view over the one Results it wraps *)

RECURSIVE IterFrom(_, _)
IterFrom(entries, i) ==
    IF i > Len(entries)
    THEN <<>>
    ELSE LET entry == entries[i]
             path  == TryFromBstr(entry.index_entry.path)
         IN  (IF IsSome(entry.result) /\ IsSome(path)
              THEN << <<Unwrap(path), Unwrap(entry.result)>> >>
              ELSE <<>>)
               \o IterFrom(entries, i + 1)

(* Analysis::iter: the (path, Entry) pairs, in entry order *)
AnalysisIter(res) == IterFrom(res.entries, 1)

(* SummaryAdd that puts a language seen for the first time in front *)
SummaryAdd_Prepends(summary, language, size) ==
    IF \E k \in 1..Len(summary) : summary[k].language = language
    THEN [k \in 1..Len(summary) |->
            IF summary[k].language = language
            THEN [summary[k] EXCEPT !.total = @ + size]
            ELSE summary[k]]
    ELSE <<[language |-> language, total |-> size]>> \o summary

(* SummaryAdd with = in place of += *)
SummaryAdd_Overwrites(summary, language, size) ==
    IF \E k \in 1..Len(summary) : summary[k].language = language
    THEN [k \in 1..Len(summary) |->
            IF summary[k].language = language
            THEN [summary[k] EXCEPT !.total = size]
            ELSE summary[k]]
    ELSE Append(summary, [language |-> language, total |-> size])

(* *summary.entry(language).or_insert(0) += size, on an insertion-ordered  *)
(* map held as a sequence of (language, total)                             *)
SummaryAdd(summary, language, size) ==
    IF \E k \in 1..Len(summary) : summary[k].language = language
    THEN [k \in 1..Len(summary) |->
            IF summary[k].language = language
            THEN [summary[k] EXCEPT !.total = @ + size]
            ELSE summary[k]]
    ELSE Append(summary, [language |-> language, total |-> size])

RECURSIVE SummaryFold(_, _, _, _)
SummaryFold(entries, i, all, summary) ==
    IF i > Len(entries)
    THEN summary
    ELSE LET slot == entries[i].result
         IN  IF IsSome(slot) /\ (all \/ Unwrap(slot).detectable)
             THEN SummaryFold(entries, i + 1, all,
                              SummaryAdd(summary, Unwrap(slot).language,
                                         Unwrap(slot).size))
             ELSE SummaryFold(entries, i + 1, all, summary)

(* Analysis::summary_with *)
SummaryWith(res, all) == SummaryFold(res.entries, 1, all, <<>>)

(* Analysis::summary *)
Summary(res) == SummaryWith(res, FALSE)

----------------------------------------------------------------------------
(* Vocabulary of the properties *)

Range(s) == { s[i] : i \in 1..Len(s) }

(* The Results analyze holds: those accumulated and the one in progress *)
HeldResults == Range(all_results) \cup Range(results)

(* analyze has emptied the stack and is about to return Ok(()) *)
AtReturn == pc = "loop" /\ stack = <<>>

Classified(res) == { i \in 1..Len(res.entries) : IsSome(res.entries[i].result) }

RECURSIVE ClassifiedCount(_)
ClassifiedCount(rs) ==
    IF rs = <<>> THEN 0 ELSE Cardinality(Classified(Head(rs))) + ClassifiedCount(Tail(rs))

(* The roots of the sub-repositories that open, through parents that open *)
OpenRoots ==
    {<<>>}
      \cup (IF sm_status["C"] = "ok" THEN {<<"u">>} ELSE {})
      \cup (IF sm_status["A"] = "ok" THEN {<<"v">>} ELSE {})
      \cup (IF sm_status["A"] = "ok" /\ sm_status["B"] = "ok"
            THEN {<<"v", "/", "w">>} ELSE {})

(* The tree and the blobs found under each root *)
TreeAtRoot(root) ==
    CASE root = <<>> -> "tT"
      [] root = <<"u">> -> "tC"
      [] root = <<"v">> -> "tA"
      [] root = <<"v", "/", "w">> -> "tB"

BlobsAtRoot(root) ==
    { IndexFromTree(TreeAtRoot(root))[i].id : i \in 1..Len(IndexFromTree(TreeAtRoot(root))) }

WorkerFailed == \E w \in DOMAIN workers : IsSome(workers[w].res)

----------------------------------------------------------------------------
(* C1: for every classified file of a unit with root R, Analysis.iter()    *)
(* reports the path R + "/" + relative path (the relative path alone when  *)
(* R is empty).  The code reports the relative path for every unit.        *)
C1_IterReportsAbsolutePath ==
    \A res \in Range(all_results) :
      \A i \in Classified(res) :
        \E k \in 1..Len(AnalysisIter(res)) :
          AnalysisIter(res)[k] =
            <<AbsRoot(res.root, res.entries[i].index_entry.path),
              Unwrap(res.entries[i].result)>>

(* C2: when analyze returns Ok, the iterator of the Analysis yields one    *)
(* pair for every classified entry of every unit of the run.  An Analysis  *)
(* wraps one Results; whichever Results of the run it wraps, the pairs of  *)
(* the other units are missing.                                            *)
C2_IterYieldsEveryUnit ==
    AtReturn =>
      \E res \in Range(all_results) :
        Len(AnalysisIter(res)) = ClassifiedCount(all_results)

(* C3: a sub-repository that does not open, or whose commit does not peel  *)
(* to a tree, gets no unit and none of its files an Entry; it never makes  *)
(* analyze fail, and every unit that opens is processed before Ok.         *)
C3_UnopenableSubmoduleIsSkipped ==
    /\ \A k \in 1..Len(stack) : stack[k].root \in OpenRoots
    /\ \A res \in HeldResults : res.root \in OpenRoots
    /\ AtReturn => { res.root : res \in Range(all_results) } = OpenRoots
    /\ pc = "done" => ret = Some(Ok)
    /\ pc = "failed" =>
         LET e == Unwrap(Unwrap(ret).err)
         IN  \/ e.kind = "rev_parse"
             \/ /\ e.kind \in {"index_from_tree", "submodules"}
                /\ \E r \in OpenRoots : TreeAtRoot(r) = e.id
             \/ /\ e.kind \in {"find_object", "at_path"}
                /\ inputs[e.id].io # "ok"
                /\ \E r \in OpenRoots : e.id \in BlobsAtRoot(r)

C3_Witness ==
    /\ AtReturn
    /\ sm_status["A"] = "notree"
    /\ sm_status["C"] = "ok"
    /\ Len(all_results) = 2
    /\ inputs["oc"].io = "blob_err"

(* C4: once a blob read has failed in a pass, the pass can only end in     *)
(* analyze returning that error: nothing is accumulated, no further unit   *)
(* is popped, and nothing happens after the return.                        *)
C4_BlobFailureIsFatal ==
    [][ /\ (pc = "pass" /\ WorkerFailed) =>
             \/ /\ pc' = "pass"
                /\ stack' = stack
                /\ all_results' = all_results
                /\ Unwrap(results').root = Unwrap(results).root
             \/ /\ pc' = "failed"
                /\ \E w \in DOMAIN workers :
                     /\ IsSome(workers[w].res)
                     /\ ret' = Some(Err(Unwrap(workers[w].res)))
        /\ pc = "failed" => FALSE
      ]_vars

C4_Witness ==
    /\ pc = "pass"
    /\ WorkerFailed
    /\ stack # <<>>
    /\ \A w \in DOMAIN workers : workers[w].pc = "done"

(* C5 as stated: the entries classified in an interrupted pass stay held   *)
(* by analyze, for its caller, after the interruption.                     *)
C5_ClassifiedEntriesStayAvailable ==
    [][ (pc = "pass" /\ should_interrupt) =>
          \A i \in Classified(Unwrap(results)) :
            \E res \in HeldResults' :
              /\ res.root = Unwrap(results).root
              /\ res.entries[i] = Unwrap(results).entries[i]
      ]_vars

(* C5, amended: while an interrupted pass is still running, every entry    *)
(* classified so far keeps its Entry; when analyze returns the error, the  *)
(* unit's results and the accumulated results are released with it and    *)
(* the caller receives the error alone.                                    *)
C5_ClassifiedEntriesKeptUntilReturn ==
    [][ /\ (pc = "pass" /\ pc' = "pass" /\ should_interrupt') =>
             \A i \in Classified(Unwrap(results)) :
               Unwrap(results').entries[i] = Unwrap(results).entries[i]
        /\ pc' = "failed" =>
             /\ HeldResults' = {}
             /\ ~Unwrap(ret').ok
      ]_vars

C5_Witness ==
    /\ pc = "pass"
    /\ should_interrupt
    /\ Classified(Unwrap(results)) # {}
    /\ \A w \in DOMAIN workers : workers[w].pc = "done"

----------------------------------------------------------------------------
(* The entries stored so far, each with the root of its unit and with what *)
(* its blob and path yielded                                               *)
Stored ==
    UNION { { [root  |-> res.root,
               inp   |-> inputs[res.entries[i].index_entry.id],
               entry |-> Unwrap(res.entries[i].result)] : i \in Classified(res) } :
            res \in HeldResults }

DataOrProse(entry) == entry.language.category \in {"Data", "Prose"}

C7_DerivedDetectable ==
    \A s \in Stored :
      s.inp.attrs[5] = Unspecified =>
        s.entry.detectable =
          (/\ ~DataOrProse(s.entry)
           /\ ~(s.entry.generated \/ s.entry.documentation \/ s.entry.vendored))

C7_Witness ==
    \E s \in Stored :
      /\ s.inp.attrs[5] = Unspecified
      /\ s.entry.language.category = "Query"
      /\ s.inp.is_vendored /\ s.inp.attrs[4] = Unset
      /\ s.inp.is_generated /\ s.inp.attrs[2] = Value(<<"t">>)
      /\ ~s.inp.is_documentation /\ s.inp.attrs[3] = Unspecified
      /\ s.root = <<>>
      /\ s.entry.detectable

FacetOf(entry, k) ==
    CASE k = 2 -> entry.generated
      [] k = 3 -> entry.documentation
      [] k = 4 -> entry.vendored
      [] k = 5 -> entry.detectable

----------------------------------------------------------------------------
RECURSIVE SumSizes(_, _)
SumSizes(res, idx) ==
    IF idx = {}
    THEN 0
    ELSE LET i == CHOOSE k \in idx : TRUE
         IN  Unwrap(res.entries[i].result).size + SumSizes(res, idx \ {i})

(* The classified entries a summary includes *)
Included(res, all) ==
    { i \in Classified(res) : all \/ Unwrap(res.entries[i].result).detectable }

OfLanguage(res, idx, language) ==
    { i \in idx : Unwrap(res.entries[i].result).language = language }

(* C10: summary_with(all) holds, for every language with an included       *)
(* entry, one total equal to the sum of the sizes of its included entries, *)
(* and nothing for any other language; summary() includes the detectable   *)
(* entries only.                                                           *)
C10_SummaryIsSumOfSizes ==
    \A res \in HeldResults :
      \A all \in BOOLEAN :
        LET sm == IF all THEN SummaryWith(res, TRUE) ELSE Summary(res)
        IN  \A language \in Catalog :
              LET idx == OfLanguage(res, Included(res, all), language)
                  at  == { k \in 1..Len(sm) : sm[k].language = language }
              IN  IF idx = {}
                  THEN at = {}
                  ELSE /\ Cardinality(at) = 1
                       /\ \A k \in at : sm[k].total = SumSizes(res, idx)

C10_Witness ==
    \E res \in HeldResults :
      /\ SummaryWith(res, TRUE) = <<[language |-> LangRust, total |-> 3]>>
      /\ Summary(res) = <<[language |-> LangRust, total |-> 2]>>

-----------------------------------------------------------------------------
(* Position in the entry list of the first included entry of a language;   *)
(* 0 when the language has none.                                           *)
FirstIncluded(res, all, language) ==
    LET idx == OfLanguage(res, Included(res, all), language)
    IN  IF idx = {} THEN 0 ELSE CHOOSE i \in idx : \A j \in idx : i <= j

(* C11: a summary lists its languages in first-seen order: one language    *)
(* comes before another exactly when its first included entry precedes the *)
(* other's first included entry in the entry list.                         *)
C11_SummaryFirstSeenOrder ==
    \A res \in HeldResults :
      \A all \in BOOLEAN :
        LET sm == SummaryWith(res, all)
        IN  \A k1, k2 \in 1..Len(sm) :
              /\ FirstIncluded(res, all, sm[k1].language) > 0
              /\ k1 < k2 <=> FirstIncluded(res, all, sm[k1].language)
                               < FirstIncluded(res, all, sm[k2].language)

(* Two languages in one summary: Rust first seen at entry 1, JSON at 2 *)
C11_Witness ==
    \E res \in HeldResults :
      /\ Len(SummaryWith(res, TRUE)) = 2
      /\ SummaryWith(res, TRUE)[1].language = LangRust
      /\ SummaryWith(res, TRUE)[2].language = LangJson
      /\ FirstIncluded(res, TRUE, LangRust) = 1
      /\ FirstIncluded(res, TRUE, LangJson) = 2

-----------------------------------------------------------------------------
(* What one classification of an entry yields, from the revision's         *)
(* contents alone: nothing for a path that cannot be converted, else the   *)
(* slot analyze_blob computes from the blob and the attributes of the path *)
ExpectedSlot(root, entry) ==
    IF ~IsSome(TryFromBstr(entry.index_entry.path))
    THEN None
    ELSE AnalyzeBlob(entry, inputs[entry.index_entry.id], root # <<>>).result

(* The Results of the unit at a root, every entry classified on its own *)
ExpectedResults(root) ==
    LET listed == FromIndex(root, IndexFromTree(TreeAtRoot(root))).results
    IN  [listed EXCEPT !.entries =
           [i \in 1..Len(listed.entries) |->
              [listed.entries[i] EXCEPT !.result = ExpectedSlot(root, listed.entries[i])]]]

(* C12: the outcome of a run is a function of the revision and its         *)
(* contents only.  Whatever the number of workers and the order in which   *)
(* they pick and finish entries, a slot that is filled holds the Entry the *)
(* contents determine, and a run that succeeds holds, for every unit,      *)
(* exactly the Entry or the absence the contents determine for each path:  *)
(* two runs over the same contents therefore agree on every path.          *)
C12_OutcomeDeterminedByContents ==
    /\ \A res \in HeldResults :
         \A i \in Classified(res) :
           res.entries[i].result = ExpectedSlot(res.root, res.entries[i])
    /\ AtReturn => Range(all_results) = { ExpectedResults(root) : root \in OpenRoots }

(* A run with two workers succeeds over four units with distinct Entries   *)
(* for "a" and "b"                                                         *)
C12_Witness ==
    /\ AtReturn
    /\ nthreads = 2
    /\ Len(all_results) = 4
    /\ \E res \in Range(all_results) :
         /\ res.root = <<>>
         /\ Classified(res) = {1, 2}
         /\ res.entries[1].result # res.entries[2].result

-----------------------------------------------------------------------------
(* The slots of the pass's entry list that a step fills or changes *)
Written ==
    { i \in 1..Len(Unwrap(results).entries) :
        Unwrap(results').entries[i].result # Unwrap(results).entries[i].result }

-----------------------------------------------------------------------------
(* The paths, ids and modes of an entry list, in order *)
Listing(entries) == [i \in 1..Len(entries) |-> entries[i].index_entry]

(* The workers that are handed an entry *)
Holding == { w \in DOMAIN workers : workers[w].item # 0 }

(* C14: under every interleaving of a pass, a step writes at most the slot *)
(* of the entry handed to the worker that takes it, a slot is written once *)
(* and by one worker (no entry is handed to two workers or handed out      *)
(* again), and the entry list keeps its paths and ids in the order of the  *)
(* original listing, during the pass and in the accumulated Results.       *)
C14_WorkersWriteOwnSlotOnly ==
    /\ [](/\ \A w1, w2 \in Holding : w1 # w2 => workers[w1].item # workers[w2].item
          /\ \A w \in Holding : workers[w].item <= index
          /\ \A res \in HeldResults :
               Listing(res.entries) =
                 SelectSeq(IndexFromTree(TreeAtRoot(res.root)), IsRegular))
    /\ [][ (pc = "pass" /\ pc' = "pass") =>
             /\ Listing(Unwrap(results').entries) = Listing(Unwrap(results).entries)
             /\ \A i \in Written :
                  /\ ~IsSome(Unwrap(results).entries[i].result)
                  /\ i <= index
                  /\ \E w \in DOMAIN workers :
                       /\ workers[w].item = i
                       /\ workers'[w] # workers[w]
                       /\ \A v \in DOMAIN workers \ {w} : workers'[v] = workers[v]
             /\ \A w \in DOMAIN workers :
                  (workers'[w].item # 0 /\ workers'[w].item # workers[w].item) =>
                      /\ workers'[w].item > index
                      /\ index' > index
         ]_vars

(* Two workers are inside analyze_blob at once, one on "a" and one on "b" *)
C14_Witness ==
    /\ pc = "pass"
    /\ nthreads = 2
    /\ workers[1].pc = "blob" /\ workers[1].item = 2
    /\ workers[2].pc = "blob" /\ workers[2].item = 1

-----------------------------------------------------------------------------
(* The gengo-language assignment names a language of the catalog *)
OverrideInCatalog(st) ==
    /\ st.state = "Value"
    /\ IsUtf8(st.value)
    /\ \E l \in Catalog : l.name = ReplaceHyphen(st.value)

(* No language can be determined for an entry: its path cannot be          *)
(* converted, or neither an override found in the catalog nor the picker   *)
(* gives one.                                                              *)
Undeterminable(entry) ==
    IF ~IsSome(TryFromBstr(entry.index_entry.path))
    THEN TRUE
    ELSE /\ ~OverrideInCatalog(inputs[entry.index_entry.id].attrs[1])
         /\ ~IsSome(inputs[entry.index_entry.id].pick)

(* An Entry with each of its six fields set *)
CompleteEntry(e) ==
    /\ DOMAIN e = {"language", "size", "detectable", "generated",
                   "documentation", "vendored"}
    /\ e.language \in Catalog
    /\ e.size \in Nat
    /\ {e.detectable, e.generated, e.documentation, e.vendored} \subseteq BOOLEAN

(* C15: in the Results of a pass that returned success, a slot is empty    *)
(* only if no language could be determined for the file or its path could  *)
(* not be converted (never because the workers passed it over), and every  *)
(* filled slot, at any time, holds an Entry with all six fields set.       *)
C15_EmptyOnlyWhenUndeterminable ==
    /\ \A res \in Range(all_results) :
         \A i \in 1..Len(res.entries) :
           ~IsSome(res.entries[i].result) => Undeterminable(res.entries[i])
    /\ \A res \in HeldResults :
         \A i \in Classified(res) : CompleteEntry(Unwrap(res.entries[i].result))

(* A successful run with two workers: "a" and "b" classified, the entry    *)
(* with the unconvertible path and the one whose override names no         *)
(* language of the catalog left empty.                                     *)
C15_Witness ==
    /\ AtReturn
    /\ nthreads = 2
    /\ inputs["oc"] = Overridden(<<"Z">>, None)
    /\ \E res \in Range(all_results) : res.root = <<>> /\ Classified(res) = {1, 2}
    /\ \E res \in Range(all_results) :
         res.root = <<"u">> /\ Len(res.entries) = 1 /\ Classified(res) = {}
    /\ \E res \in Range(all_results) :
         res.root = <<"v">> /\ Len(res.entries) = 1 /\ Classified(res) = {}

-----------------------------------------------------------------------------
(* The language the resolution order gives an entry, if any *)
ResolvedLanguage(entry) ==
    LET inp == inputs[entry.index_entry.id]
        st  == inp.attrs[1]
    IN  IF OverrideInCatalog(st)
        THEN Some(CHOOSE l \in Catalog : l.name = ReplaceHyphen(st.value))
        ELSE inp.pick

(* C16: the language is the catalog language named by the gengo-language   *)
(* override (hyphens read as spaces) when there is one; otherwise, also    *)
(* when the override names nothing in the catalog, it is the picker's      *)
(* choice; when the picker has none the slot stays empty and the call      *)
(* returns Ok: no worker ends with an error.                               *)
C16_LanguageResolutionOrder ==
    /\ \A res \in HeldResults :
         \A i \in Classified(res) :
           Some(Unwrap(res.entries[i].result).language) = ResolvedLanguage(res.entries[i])
    /\ \A res \in Range(all_results) :
         \A i \in 1..Len(res.entries) :
           IsSome(TryFromBstr(res.entries[i].index_entry.path)) =>
             (IsSome(res.entries[i].result) <=> IsSome(ResolvedLanguage(res.entries[i])))
    /\ ~WorkerFailed
    /\ IsSome(ret) /\ ~Unwrap(ret).ok =>
         Unwrap(Unwrap(ret).err).kind \notin {"find_object", "at_path"}

(* The override "O-C" names Objective-C while the picker says JSON *)
C16_Witness ==
    \E res \in Range(all_results) :
      \E i \in Classified(res) :
        /\ inputs[res.entries[i].index_entry.id].attrs[1] = Value(<<"O", "-", "C">>)
        /\ inputs[res.entries[i].index_entry.id].pick = Some(LangJson)
        /\ Unwrap(res.entries[i].result).language = LangObjC

-----------------------------------------------------------------------------
(* The roots of a sequence of Results or of units *)
Roots(s) == { s[i].root : i \in 1..Len(s) }

(* The units analyze has taken up or still has to: accumulated, in         *)
(* progress, stacked                                                       *)
UnitRoots == all_results \o results \o stack

(* The unit at a root is that of a sub-repository recorded in the tree of  *)
(* a unit that has been listed and processed                               *)
ParentProcessed(root) ==
    \E res \in Range(all_results) :
      \E e \in Range(IndexFromTree(TreeAtRoot(res.root))) :
        IsCommit(e) /\ root = AbsRoot(res.root, e.path)

(* C17: a run that succeeds has processed exactly the top-level unit and   *)
(* one unit for every sub-repository that opens, with a recorded commit    *)
(* that resolves to a tree, below a processed unit, at any depth; no unit  *)
(* is taken up twice, and a sub-repository's unit is on the stack only     *)
(* once its parent unit has been listed and processed.                     *)
C17_UnitsProcessedOnce ==
    /\ [](/\ \A i, j \in 1..Len(UnitRoots) :
               UnitRoots[i].root = UnitRoots[j].root => i = j
          /\ Roots(UnitRoots) \subseteq OpenRoots
          /\ \A u \in Range(stack) : u.root # <<>> => ParentProcessed(u.root)
          /\ \A r \in Range(results) : r.root # <<>> => ParentProcessed(r.root)
          /\ AtReturn => Roots(all_results) = OpenRoots)
    /\ [][ /\ Len(stack') > Len(stack) =>
                \/ pc = "start"
                \/ pc = "pass" /\ all_results' = Append(all_results, Unwrap(results))
           /\ Len(all_results') > Len(all_results) =>
                /\ pc = "pass"
                /\ all_results' = Append(all_results, Unwrap(results))
           /\ (Len(stack') < Len(stack) /\ pc' = "pass") =>
                /\ stack = Append(stack', stack[Len(stack)])
                /\ Unwrap(results').root = stack[Len(stack)].root
         ]_vars

(* The nested sub-repository's unit is on the stack, after the top unit    *)
(* and its parent have been processed, with a sibling still waiting        *)
C17_Witness ==
    /\ pc = "loop"
    /\ Len(all_results) = 2
    /\ Len(stack) = 2
    /\ stack[1].root = <<"u">>
    /\ stack[2].root = <<"v", "/", "w">>

-----------------------------------------------------------------------------
(* C18: one unit is classified at a time.  Workers exist only during the   *)
(* pass of the unit in progress and work on its entries alone; the step    *)
(* that ends a pass, the only one that pushes child units or lets the next *)
(* unit be popped, is taken when every worker of the pass has stopped.     *)
C18_OneUnitAtATime ==
    /\ [](/\ pc # "pass" => (workers = NoWorkers /\ results = None)
          /\ pc = "pass" =>
               /\ IsSome(results)
               /\ DOMAIN workers = 1..nthreads
               /\ \A w \in DOMAIN workers :
                    workers[w].item \in 0..Len(Unwrap(results).entries))
    /\ [][ /\ pc = "pass" =>
                \/ /\ pc' = "pass"
                   /\ stack' = stack
                   /\ all_results' = all_results
                   /\ Unwrap(results').root = Unwrap(results).root
                \/ /\ pc' \in {"loop", "failed"}
                   /\ \A w \in DOMAIN workers : workers[w].pc = "done"
                   /\ workers' = NoWorkers
           /\ pc' = "pass" /\ pc # "pass" =>
                /\ pc = "loop"
                /\ \A w \in DOMAIN workers' : workers'[w].pc = "fetch"
         ]_vars

(* The pass of a sub-repository's unit is running, one worker inside       *)
(* analyze_blob and the other stopped, while another unit waits on the     *)
(* stack                                                                   *)
C18_Witness ==
    /\ pc = "pass"
    /\ nthreads = 2
    /\ Unwrap(results).root = <<"v">>
    /\ stack # <<>>
    /\ workers[1].pc = "done"
    /\ workers[2].pc = "blob"

-----------------------------------------------------------------------------
(* Termination.  The coordinating thread and the worker threads are        *)
(* running threads: a step that is possible is eventually taken.  Blobs    *)
(* either classify or fail to be read.                                     *)
LiveInputs == { Plain(LangRust, 1), NoLanguage, BlobErr }

InitLive ==
    /\ inputs \in [BlobIds -> LiveInputs]
    /\ sm_status \in [SubRepos -> SmStates]
    /\ nthreads \in 1..MaxThreads
    /\ InitRun

SpecLive == InitLive /\ [][Next]_vars /\ WF_vars(Next)

(* C19: with a finite nesting of sub-repositories, and passes that return, *)
(* analyze returns: either a pass fails and the error is returned, or the  *)
(* stack runs empty and analyze returns Ok(()).                            *)
C19_TraversalTerminates ==
    <>(\/ pc = "failed" /\ IsSome(ret) /\ ~Unwrap(ret).ok
       \/ pc = "done" /\ ret = Some(Ok) /\ stack = <<>>)

(* A run over the whole nesting, with two workers, has returned Ok(()) *)
C19_Witness ==
    /\ pc = "done"
    /\ ret = Some(Ok)
    /\ nthreads = 2
    /\ \A s \in SubRepos : sm_status[s] = "ok"

-----------------------------------------------------------------------------
(* The positions of an index whose mode is one of the given modes *)
WithMode(idx, modes) == { k \in 1..Len(idx) : idx[k].mode \in modes }

(* The i-th smallest position of a set of positions *)
Nth(positions, i) ==
    CHOOSE k \in positions : Cardinality({ j \in positions : j <= k }) = i

(* The tree of the unit in progress, as listed *)
CurrentIndex == IndexFromTree(TreeAtRoot(Unwrap(results).root))

(* C20: the entries of a unit are exactly the index entries of mode FILE   *)
(* or FILE_EXECUTABLE, in listing order, each with an empty slot when the  *)
(* listing is made; the side list holds exactly the COMMIT entries, as     *)
(* (path, commit id), and none of them is an entry; symlinks are in        *)
(* neither list.                                                           *)
C20_ListingKeepsRegularFiles ==
    /\ [](/\ \A res \in HeldResults :
               LET idx == IndexFromTree(TreeAtRoot(res.root))
                   reg == WithMode(idx, {"FILE", "FILE_EXECUTABLE"})
               IN  /\ Len(res.entries) = Cardinality(reg)
                   /\ \A i \in 1..Len(res.entries) :
                        res.entries[i].index_entry = idx[Nth(reg, i)]
          /\ pc = "pass" =>
               LET com == WithMode(CurrentIndex, {"COMMIT"})
               IN  /\ Len(submodule_id_by_path) = Cardinality(com)
                   /\ \A i \in 1..Len(submodule_id_by_path) :
                        /\ submodule_id_by_path[i].path = CurrentIndex[Nth(com, i)].path
                        /\ submodule_id_by_path[i].id = CurrentIndex[Nth(com, i)].id
                        /\ \A j \in 1..Len(Unwrap(results).entries) :
                             Unwrap(results).entries[j].index_entry.path
                               # submodule_id_by_path[i].path)
    /\ [][ (pc = "loop" /\ pc' = "pass") =>
             \A i \in 1..Len(Unwrap(results').entries) :
               Unwrap(results').entries[i].result = None
         ]_vars

(* The top tree has just been listed: of its five index entries, the two   *)
(* regular files are entries, the two COMMIT entries are in the side list  *)
(* and the symlink is in neither.                                          *)
C20_Witness ==
    /\ pc = "pass"
    /\ index = 0
    /\ Unwrap(results).root = <<>>
    /\ Len(CurrentIndex) = 5
    /\ \E k \in 1..Len(CurrentIndex) : CurrentIndex[k].mode = "SYMLINK"
    /\ Len(Unwrap(results).entries) = 2
    /\ Len(submodule_id_by_path) = 2

====
